---- MODULE Spec2Model ----
(***************************************************************************)
(* Model of the world descriptor of rnbt (src/lib.rs): loading a world     *)
(* from an input path (McWorldDescriptor::new, read_input_path,            *)
(* read_file_format), and the queries on the loaded world (search_compound *)
(* with its recursive helper, to_json), together with the Python wrappers  *)
(* load_binary and PyMcWorldDescriptor::search_compound.                   *)
(*                                                                         *)
(* A tag is a record [ty, name, values]: ty is the tag type, name the      *)
(* tag's own name field, values the children of a Compound (in the         *)
(* iteration order of its map) or the elements of a List.  A reference to  *)
(* a compound (&NbtTagCompound) is the path of indices that leads to it:   *)
(* <<root index, child index, ...>>.                                       *)
(***************************************************************************)
EXTENDS Integers, Sequences, FiniteSets, TLC

VARIABLES input, pc, read_result, world, calls, ret

vars == <<input, pc, read_result, world, calls, ret>>

(***************************************************************************)
(* Bounds of the model.                                                    *)
(***************************************************************************)
\* nodes (tags) in the trees of the file a world is searched in
MaxNodes == 4
\* entries of the region subfolder of a directory input
MaxEntries == 2

Names == {"a", "b"}
Keys == {"a", "b"}

(***************************************************************************)
(* Tag trees.                                                              *)
(***************************************************************************)
IntTag == [ty |-> "Int", name |-> "", values |-> <<>>]
CompoundTag(n, vs) == [ty |-> "Compound", name |-> n, values |-> vs]
ListTag(vs) == [ty |-> "List", name |-> "", values |-> vs]

\* elements of a List share one type id
Homogeneous(f) == \A i \in 1..Len(f) : f[i].ty = f[1].ty
AllCompounds(f) == \A i \in 1..Len(f) : f[i].ty = "Compound"

\* the tags of exactly k nodes, from the forests of k - 1 nodes
TagsOver(k, smaller) ==
    IF k = 1
    THEN {IntTag, ListTag(<<>>)} \cup {CompoundTag(nm, <<>>) : nm \in Names}
    ELSE {CompoundTag(nm, f) : nm \in Names, f \in smaller}
         \cup {ListTag(f) : f \in {g \in smaller : Homogeneous(g)}}

RECURSIVE SizeTable(_, _, _)
\* tab[j], j < k, holds the tags and the sequences of tags of exactly j nodes;
\* the table is extended up to n nodes
SizeTable(k, n, tab) ==
    IF k > n
    THEN tab
    ELSE LET tags == TagsOver(k, tab[k - 1].forests)
             forests == {<<t>> \o f : t \in tags, f \in {<<>>}}
                        \cup UNION {{<<t>> \o f : t \in tab[j].tags, f \in tab[k - j].forests}
                                    : j \in 1..(k - 1)}
         IN  SizeTable(k + 1, n, tab @@ (k :> [tags |-> tags, forests |-> forests]))

\* lists of root compounds of at most n nodes
RootLists(n) ==
    LET tab == SizeTable(1, n, 0 :> [tags |-> {}, forests |-> {<<>>}])
    IN  UNION {{f \in tab[k].forests : AllCompounds(f)} : k \in 0..n}

RECURSIVE NodeAt(_, _)
\* the tag a path leads to, from a sequence of tags
NodeAt(tags, p) ==
    IF Len(p) = 1 THEN tags[p[1]] ELSE NodeAt(tags[p[1]].values, Tail(p))

(***************************************************************************)
(* Input paths.  The decoders (region::RegionFile, generic_bin::           *)
(* GenericBinFile, NbtTagCompound::from_json) are inputs of the world      *)
(* descriptor: an entry carries the outcome of the decoder its extension   *)
(* selects, an error or the list of root compounds.                        *)
(***************************************************************************)
DecodeError == [ok |-> FALSE, roots |-> <<>>]
Decoded(rs) == [ok |-> TRUE, roots |-> rs]

RegionExts == {"mca", "mcr"}
BinExts == {"nbt", "litematic"}
JsonExts == {"json"}
OtherExts == {"txt", "MCA"}

File(e, o) == [entry_ok |-> TRUE, has_ext |-> TRUE, ext |-> e, outcome |-> o]
NoExtFile == [entry_ok |-> TRUE, has_ext |-> FALSE, ext |-> "", outcome |-> DecodeError]
BadEntry == [entry_ok |-> FALSE, has_ext |-> FALSE, ext |-> "", outcome |-> DecodeError]

SmallRoots == {CompoundTag(nm, <<>>) : nm \in Names}
OneRoot == {Decoded(<<r>>) : r \in SmallRoots}

\* the files of a region subfolder
SmallFiles ==
    {File(e, o) : e \in RegionExts, o \in {DecodeError, Decoded(<<>>)} \cup OneRoot}
    \cup {File(e, o) : e \in BinExts \cup JsonExts, o \in {DecodeError} \cup OneRoot}
    \cup {File(e, DecodeError) : e \in OtherExts}
    \cup {NoExtFile}

\* a file given as the input path; a region file holds any list of roots
InputFiles ==
    SmallFiles \cup {File("mca", Decoded(rs)) : rs \in RootLists(MaxNodes)}

RECURSIVE SeqsUpTo(_, _)
SeqsUpTo(S, n) ==
    IF n = 0 THEN {<<>>}
    ELSE SeqsUpTo(S, n - 1)
         \cup {Append(s, x) : s \in {t \in SeqsUpTo(S, n - 1) : Len(t) = n - 1}, x \in S}

FileInput(f) ==
    [is_dir |-> FALSE, exists |-> TRUE, region |-> "none", entries |-> <<f>>]
DirInput(r, es) ==
    [is_dir |-> TRUE, exists |-> TRUE, region |-> r, entries |-> es]

Inputs ==
    {FileInput(f) : f \in InputFiles}
    \cup {DirInput(r, <<>>) : r \in {"missing", "notdir", "unreadable"}}
    \cup {DirInput("ok", es) : es \in SeqsUpTo(SmallFiles \cup {BadEntry}, MaxEntries)}

Ok(v) == [ok |-> TRUE, value |-> v, err |-> ""]
Err(e) == [ok |-> FALSE, value |-> <<>>, err |-> e]

(***************************************************************************)
(* read_file_format: the result and the decoder invoked, by extension.     *)
(***************************************************************************)
\* read_file_format with "litematic" left out of the second comparison
read_file_format_nbt_only(f) ==
    IF f.has_ext
    THEN IF f.ext = "mcr" \/ f.ext = "mca"
         THEN [res |-> IF f.outcome.ok THEN Ok(f.outcome.roots) ELSE Err("decoder error"),
               call |-> <<[decoder |-> "RegionFile", hint |-> "", file |-> f]>>]
         ELSE IF f.ext = "nbt"
         THEN [res |-> IF f.outcome.ok THEN Ok(f.outcome.roots) ELSE Err("decoder error"),
               call |-> <<[decoder |-> "GenericBinFile", hint |-> "Nbt", file |-> f]>>]
         ELSE IF f.ext = "json"
         THEN [res |-> IF f.outcome.ok THEN Ok(<<f.outcome.roots[1]>>) ELSE Err("decoder error"),
               call |-> <<[decoder |-> "from_json", hint |-> "", file |-> f]>>]
         ELSE [res |-> Err("Invalid file extension"), call |-> <<>>]
    ELSE [res |-> Err("File without extension"), call |-> <<>>]

read_file_format(f) ==
    IF f.has_ext
    THEN IF f.ext = "mcr" \/ f.ext = "mca"
         THEN [res |-> IF f.outcome.ok THEN Ok(f.outcome.roots) ELSE Err("decoder error"),
               call |-> <<[decoder |-> "RegionFile", hint |-> "", file |-> f]>>]
         ELSE IF f.ext = "nbt" \/ f.ext = "litematic"
         THEN [res |-> IF f.outcome.ok THEN Ok(f.outcome.roots) ELSE Err("decoder error"),
               call |-> <<[decoder |-> "GenericBinFile", hint |-> "Nbt", file |-> f]>>]
         ELSE IF f.ext = "json"
         THEN [res |-> IF f.outcome.ok THEN Ok(<<f.outcome.roots[1]>>) ELSE Err("decoder error"),
               call |-> <<[decoder |-> "from_json", hint |-> "", file |-> f]>>]
         ELSE [res |-> Err("Invalid file extension"), call |-> <<>>]
    ELSE [res |-> Err("File without extension"), call |-> <<>>]

RECURSIVE read_region_entries(_, _, _, _)
\* the loop over the entries of the region subfolder, from entry i on
read_region_entries(es, i, list, cs) ==
    IF i > Len(es)
    THEN [res |-> Ok(list), calls |-> cs]
    ELSE IF ~es[i].entry_ok
    THEN read_region_entries(es, i + 1, list, cs)
    ELSE LET r == read_file_format(es[i])
         IN  IF ~r.res.ok
             THEN [res |-> r.res, calls |-> cs \o r.call]
             ELSE read_region_entries(es, i + 1, list \o r.res.value, cs \o r.call)

read_input_path(p) ==
    IF p.is_dir
    THEN IF ~p.exists
         THEN [res |-> Err("World Directory does not exist"), calls |-> <<>>]
         ELSE IF p.region \in {"missing", "notdir"}
         THEN [res |-> Err("SubDir './region' does not exist"), calls |-> <<>>]
         ELSE IF p.region = "unreadable"
         THEN [res |-> Err("Error in reading the region files"), calls |-> <<>>]
         ELSE read_region_entries(p.entries, 1, <<>>, <<>>)
    ELSE LET r == read_file_format(p.entries[1])
         IN  [res |-> r.res, calls |-> r.call]

\* McWorldDescriptor::new, from the result of read_input_path
new(r) ==
    IF r.ok
    THEN Ok([version |-> "0.0.0", tag_compounds_list |-> r.value])
    ELSE Err("McWorldDescriptor not created because of input file error")

(***************************************************************************)
(* search_compound and recursive_compound_search.  result_list holds the   *)
(* references pushed so far; each operator returns the value the code      *)
(* returns together with the list as the call leaves it.                   *)
(***************************************************************************)
RECURSIVE recursive_compound_search(_, _, _, _, _)
RECURSIVE search_values(_, _, _, _, _, _)
RECURSIVE search_list_items(_, _, _, _, _, _)

\* the inner loop over the elements of a List child l at path p, from element j
\* on; found = TRUE is the early `return true`
search_list_items(l, p, j, result_list, key, stop_at_first) ==
    IF j > Len(l.values)
    THEN [found |-> FALSE, result_list |-> result_list]
    ELSE IF l.values[j].ty = "Compound"
    THEN LET r == recursive_compound_search(l.values[j], Append(p, j),
                                            result_list, key, stop_at_first)
         IN  IF r.found /\ stop_at_first
             THEN [found |-> TRUE, result_list |-> r.result_list]
             ELSE search_list_items(l, p, j + 1, r.result_list, key, stop_at_first)
    ELSE search_list_items(l, p, j + 1, result_list, key, stop_at_first)

\* the loop over the values of compound c at path p, from value i on
search_values(c, p, i, result_list, key, stop_at_first) ==
    IF i > Len(c.values)
    THEN [found |-> FALSE, result_list |-> result_list]
    ELSE IF c.values[i].ty = "Compound"
    THEN LET r == recursive_compound_search(c.values[i], Append(p, i),
                                            result_list, key, stop_at_first)
         IN  IF r.found /\ stop_at_first
             THEN [found |-> TRUE, result_list |-> r.result_list]
             ELSE search_values(c, p, i + 1, r.result_list, key, stop_at_first)
    ELSE IF c.values[i].ty = "List"
    THEN LET r == search_list_items(c.values[i], Append(p, i), 1,
                                    result_list, key, stop_at_first)
         IN  IF r.found
             THEN [found |-> TRUE, result_list |-> r.result_list]
             ELSE search_values(c, p, i + 1, r.result_list, key, stop_at_first)
    ELSE search_values(c, p, i + 1, result_list, key, stop_at_first)

\* recursive_compound_search with the push placed before the test of the name
recursive_compound_search_push_first(tag_compound, p, result_list, key, stop_at_first) ==
    IF tag_compound.name = key
    THEN [found |-> TRUE, result_list |-> Append(result_list, p)]
    ELSE search_values(tag_compound, p, 1, Append(result_list, p), key, stop_at_first)

recursive_compound_search(tag_compound, p, result_list, key, stop_at_first) ==
    IF tag_compound.name = key
    THEN [found |-> TRUE, result_list |-> Append(result_list, p)]
    ELSE search_values(tag_compound, p, 1, result_list, key, stop_at_first)

RECURSIVE search_roots(_, _, _, _, _)

\* search_roots without the early return on a match under stop_at_first
search_roots_no_return(list, i, result_list, key, stop_at_first) ==
    IF i > Len(list)
    THEN [found |-> result_list # <<>>, result_list |-> result_list]
    ELSE LET r == recursive_compound_search(list[i], <<i>>, result_list,
                                            key, stop_at_first)
         IN  search_roots(list, i + 1, r.result_list, key, stop_at_first)

\* search_roots returning false after the loop whatever the list holds
search_roots_false_after_loop(list, i, result_list, key, stop_at_first) ==
    IF i > Len(list)
    THEN [found |-> FALSE, result_list |-> result_list]
    ELSE LET r == recursive_compound_search(list[i], <<i>>, result_list,
                                            key, stop_at_first)
         IN  IF r.found /\ stop_at_first
             THEN [found |-> TRUE, result_list |-> r.result_list]
             ELSE search_roots(list, i + 1, r.result_list, key, stop_at_first)

\* the loop of search_compound over tag_compounds_list, from root i on, and
\* the return value chosen after it
search_roots(list, i, result_list, key, stop_at_first) ==
    IF i > Len(list)
    THEN [found |-> result_list # <<>>, result_list |-> result_list]
    ELSE LET r == recursive_compound_search(list[i], <<i>>, result_list,
                                            key, stop_at_first)
         IN  IF r.found /\ stop_at_first
             THEN [found |-> TRUE, result_list |-> r.result_list]
             ELSE search_roots(list, i + 1, r.result_list, key, stop_at_first)

search_compound(w, key, stop_at_first) ==
    search_roots(w.tag_compounds_list, 1, <<>>, key, stop_at_first)

\* PyMcWorldDescriptor::search_compound: the compounds found, cloned
py_search_compound(w, key) ==
    LET r == search_compound(w, key, FALSE)
    IN  IF r.found
        THEN [found |-> TRUE,
              py_tag_list |-> [k \in 1..Len(r.result_list) |->
                                  NodeAt(w.tag_compounds_list, r.result_list[k])]]
        ELSE [found |-> FALSE, py_tag_list |-> <<>>]

\* McWorldDescriptor::to_json: get(0).unwrap() panics on an empty list;
\* otherwise the first root is written, and the write succeeds or not
to_json(w, io_ok) ==
    IF Len(w.tag_compounds_list) = 0
    THEN [outcome |-> "panic", written |-> <<>>]
    ELSE IF io_ok
    THEN [outcome |-> "ok", written |-> <<w.tag_compounds_list[1]>>]
    ELSE [outcome |-> "err", written |-> <<>>]

\* load_binary: the world of McWorldDescriptor::new wrapped, its error passed on
load_binary(r) ==
    LET w == new(r)
    IN  IF w.ok
        THEN Ok([mc_world_descriptor |-> w.value,
                 tag_compounds_list |-> w.value.tag_compounds_list])
        ELSE Err(w.err)

NoWorld == [version |-> "", tag_compounds_list |-> <<>>]
NoRet == [op |-> "none"]

Init ==
    /\ input \in Inputs
    /\ pc = "start"
    /\ read_result = Err("")
    /\ world = NoWorld
    /\ calls = <<>>
    /\ ret = NoRet

New ==
    /\ pc = "start"
    /\ LET r == read_input_path(input)
           w == new(r.res)
       IN  /\ read_result' = r.res
           /\ calls' = r.calls
           /\ world' = IF w.ok THEN w.value ELSE NoWorld
           /\ pc' = IF w.ok THEN "McWorldDescriptor" ELSE "failed"
           /\ ret' = [op |-> "new", ok |-> w.ok, err |-> w.err]
    /\ UNCHANGED input

LoadBinary ==
    /\ pc = "start"
    /\ LET r == read_input_path(input)
           w == load_binary(r.res)
       IN  /\ read_result' = r.res
           /\ calls' = r.calls
           /\ world' = IF w.ok THEN w.value.mc_world_descriptor ELSE NoWorld
           /\ pc' = IF w.ok THEN "PyMcWorldDescriptor" ELSE "failed"
           /\ ret' = [op |-> "load_binary", ok |-> w.ok, err |-> w.err]
    /\ UNCHANGED input

SearchCompound ==
    /\ pc = "McWorldDescriptor"
    /\ \E key \in Keys, stop_at_first \in BOOLEAN :
          LET r == search_compound(world, key, stop_at_first)
          IN  ret' = [op |-> "search_compound", key |-> key,
                      stop_at_first |-> stop_at_first,
                      found |-> r.found, result_list |-> r.result_list]
    /\ UNCHANGED <<input, pc, read_result, world, calls>>

PySearchCompound ==
    /\ pc = "PyMcWorldDescriptor"
    /\ \E key \in Keys :
          LET r == py_search_compound(world, key)
          IN  ret' = [op |-> "py_search_compound", key |-> key,
                      found |-> r.found, py_tag_list |-> r.py_tag_list]
    /\ UNCHANGED <<input, pc, read_result, world, calls>>

ToJson ==
    /\ pc \in {"McWorldDescriptor", "PyMcWorldDescriptor"}
    /\ \E io_ok \in BOOLEAN :
          LET r == to_json(world, io_ok)
          IN  ret' = [op |-> "to_json", outcome |-> r.outcome, written |-> r.written]
    /\ UNCHANGED <<input, pc, read_result, world, calls>>

Next ==
    \/ New
    \/ LoadBinary
    \/ SearchCompound
    \/ PySearchCompound
    \/ ToJson

Spec == Init /\ [][Next]_vars

(***************************************************************************)
(* Definitions the properties are stated with.                             *)
(***************************************************************************)
Loaded == pc \in {"McWorldDescriptor", "PyMcWorldDescriptor"}
Roots == world.tag_compounds_list
DirLoaded == input.is_dir /\ input.region = "ok" /\ pc # "start"
FileLoaded == ~input.is_dir /\ pc # "start"

RECURSIVE PathsIn(_, _)
\* the paths of all the tags under a sequence of tags
PathsIn(tags, prefix) ==
    UNION {{Append(prefix, i)} \cup PathsIn(tags[i].values, Append(prefix, i))
           : i \in 1..Len(tags)}

Parent(p) == SubSeq(p, 1, Len(p) - 1)
IsPrefix(p, q) == Len(p) <= Len(q) /\ SubSeq(q, 1, Len(p)) = p
TyAt(p) == NodeAt(Roots, p).ty

\* the compounds of the world that are named key
Named(key) ==
    {p \in PathsIn(Roots, <<>>) : TyAt(p) = "Compound" /\ NodeAt(Roots, p).name = key}

RECURSIVE Reachable(_)
\* a compound reached from a root through Compound-child edges and
\* List-of-Compound element edges
Reachable(p) ==
    /\ TyAt(p) = "Compound"
    /\ \/ Len(p) = 1
       \/ Len(p) >= 2 /\ Reachable(Parent(p))
       \/ Len(p) >= 3 /\ TyAt(Parent(p)) = "List" /\ Reachable(Parent(Parent(p)))

\* p comes before q in depth-first preorder
Before(p, q) ==
    \/ p # q /\ IsPrefix(p, q)
    \/ \E k \in 1..Len(p) :
          /\ k <= Len(q)
          /\ SubSeq(p, 1, k - 1) = SubSeq(q, 1, k - 1)
          /\ p[k] < q[k]

Matches(key) == {p \in Named(key) : Reachable(p)}
First(S) == CHOOSE p \in S : \A q \in S \ {p} : Before(p, q)
Elems(l) == {l[i] : i \in 1..Len(l)}

\* l lists the set S in preorder, each element once
PreorderListing(l, S) ==
    /\ Elems(l) = S
    /\ \A i, j \in 1..Len(l) : i < j => Before(l[i], l[j])

Searched(stop) == ret.op = "search_compound" /\ ret.stop_at_first = stop

\* C1: search_compound(k, FALSE) returns every compound named k that is
\* reachable from a root through Compound-child and List-of-Compound element
\* edges, in depth-first preorder.
C1_SearchCompleteness ==
    Searched(FALSE) => PreorderListing(ret.result_list, Matches(ret.key))

\* C2: with stop_at_first false the search still descends into a compound that
\* matched: a compound named key nested in a returned compound named key is
\* returned too.
C2_DescendsIntoMatch ==
    Searched(FALSE) =>
        \A p \in Elems(ret.result_list) :
            \A q \in Matches(ret.key) :
                IsPrefix(p, q) => q \in Elems(ret.result_list)

\* C3: search_compound(key, TRUE) returns the empty list when no compound
\* reachable through Compound-child and List-of-Compound element edges is named
\* key, and otherwise exactly the first such compound in preorder.
C3_StopAtFirst ==
    Searched(TRUE) =>
        IF Matches(ret.key) = {}
        THEN ret.result_list = <<>>
        ELSE ret.result_list = <<First(Matches(ret.key))>>

\* the first of several matches lies below a root, and a later root matches too
C3_Witness ==
    /\ Searched(TRUE)
    /\ Len(ret.result_list) = 1
    /\ Len(ret.result_list[1]) >= 2
    /\ \E q \in Matches(ret.key) : q[1] > ret.result_list[1][1]

(***************************************************************************)
(* Loading.                                                                *)
(***************************************************************************)
IsRegionFile(f) == f.entry_ok /\ f.has_ext /\ f.ext \in RegionExts
DecodeFails(f) == IsRegionFile(f) /\ ~f.outcome.ok

RegionDecodesOk(f) == IsRegionFile(f) /\ f.outcome.ok

RECURSIVE RegionRoots(_)
\* the roots of the region files of es that decode, in directory order
RegionRoots(es) ==
    IF es = <<>> THEN <<>>
    ELSE (IF RegionDecodesOk(Head(es)) THEN Head(es).outcome.roots ELSE <<>>)
         \o RegionRoots(Tail(es))

\* C4: a file of the region subfolder whose decode fails is skipped; the world
\* holds the roots of every file that decoded successfully, wherever the
\* failing file stands in the listing.
C4_FailedFileSkipped ==
    (/\ DirLoaded
     /\ \E i \in 1..Len(input.entries) : DecodeFails(input.entries[i])
     /\ \E j \in 1..Len(input.entries) :
            RegionDecodesOk(input.entries[j]) /\ input.entries[j].outcome.roots # <<>>
     /\ \A i \in 1..Len(input.entries) : IsRegionFile(input.entries[i]))
    => /\ Loaded
       /\ Roots = RegionRoots(input.entries)

\* C5: every entry of the region subfolder is decoded by the region decoder
\* only; an entry without the .mca/.mcr extension is skipped: it adds no
\* compound and does not make the load fail.
C5_NonRegionSkipped ==
    (/\ DirLoaded
     /\ \A i \in 1..Len(input.entries) : ~DecodeFails(input.entries[i]))
    => /\ Loaded
       /\ \A k \in 1..Len(calls) : calls[k].decoder = "RegionFile"
       /\ Roots = RegionRoots(input.entries)

RECURSIVE RootsDecoded(_)
\* the roots the decoders invoked during the load returned
RootsDecoded(cs) ==
    IF cs = <<>> THEN <<>>
    ELSE Head(cs).file.outcome.roots \o RootsDecoded(Tail(cs))

\* C6: new and load_binary return Ok exactly when at least one root compound
\* was decoded from the input path, and otherwise the first error met while
\* reading the input.
C6_TopLevelSuccess ==
    ret.op \in {"new", "load_binary"} =>
        /\ ret.ok <=> RootsDecoded(calls) # <<>>
        /\ ~ret.ok => ret.err = read_result.err

TheFile == input.entries[1]
Call(d, h) == <<[decoder |-> d, hint |-> h, file |-> TheFile]>>

\* C7: for a file input the extension alone selects the decoder: mca/mcr the
\* region decoder, nbt/litematic the generic binary loader with the Nbt hint,
\* json the JSON reader (one root); any other extension, or none, is an error
\* with no compounds and no decoder invoked.
C7_DispatchByExtension ==
    FileLoaded =>
        IF TheFile.has_ext /\ TheFile.ext \in {"mca", "mcr"}
        THEN calls = Call("RegionFile", "")
        ELSE IF TheFile.has_ext /\ TheFile.ext \in {"nbt", "litematic"}
        THEN calls = Call("GenericBinFile", "Nbt")
        ELSE IF TheFile.has_ext /\ TheFile.ext = "json"
        THEN calls = Call("from_json", "") /\ (read_result.ok => Len(read_result.value) = 1)
        ELSE calls = <<>> /\ ~read_result.ok /\ read_result.value = <<>> /\ Roots = <<>>

\* a .litematic file was loaded through the generic binary loader
C7_Witness ==
    /\ FileLoaded
    /\ TheFile.ext = "litematic"
    /\ Loaded
    /\ Len(Roots) = 1
    /\ calls # <<>>

\* C8: for every world new returned successfully, to_json writes the first
\* root compound and no other; the first root exists, so to_json returns
\* instead of aborting.
C8_ToJsonFirstRoot ==
    (Loaded /\ ret.op = "to_json") =>
        /\ ret.outcome # "panic"
        /\ ret.outcome = "ok" => ret.written = <<Roots[1]>>

\* the compound at p was visited by a search that descends into every
\* compound: no compound on the way to it is named key
Unshadowed(p, key) ==
    \A k \in 1..Len(p) :
        LET a == NodeAt(Roots, SubSeq(p, 1, k))
        IN  a.ty = "Compound" => a.name # key

\* C9: a compound named key that is an element of a List which is itself an
\* element of a List child of a compound is returned by
\* search_compound(key, FALSE).
C9_NestedLists ==
    Searched(FALSE) =>
        \A p \in Named(ret.key) :
            (/\ Len(p) >= 4
             /\ TyAt(Parent(p)) = "List"
             /\ TyAt(Parent(Parent(p))) = "List"
             /\ Reachable(Parent(Parent(Parent(p))))
             /\ Unshadowed(Parent(p), ret.key))
            => p \in Elems(ret.result_list)

\* C10: the boolean search_compound returns is true exactly when the list it
\* returns is not empty, for the Rust method and for the Python wrapper.
C10_FoundIffNonEmpty ==
    /\ ret.op = "search_compound" => (ret.found <=> ret.result_list # <<>>)
    /\ ret.op = "py_search_compound" => (ret.found <=> ret.py_tag_list # <<>>)

\* without stop_at_first, the only match lies below the second root
C10_Witness ==
    /\ Searched(FALSE)
    /\ ret.found
    /\ Len(ret.result_list) = 1
    /\ ret.result_list[1][1] >= 2
    /\ Len(ret.result_list[1]) >= 2

\* the references of l are pairwise distinct
NoDuplicates(l) == \A i, j \in 1..Len(l) : i # j => l[i] # l[j]

\* C11: every element of the list search_compound returns is a compound node
\* of one of the world's trees whose name equals key, no node is listed twice,
\* and tag_compounds_list is still the list that was loaded.
C11_SearchSoundness ==
    /\ ret.op = "search_compound" =>
          /\ Elems(ret.result_list) \subseteq Named(ret.key)
          /\ NoDuplicates(ret.result_list)
          /\ Roots = read_result.value
    /\ ret.op = "py_search_compound" =>
          /\ \A k \in 1..Len(ret.py_tag_list) :
                ret.py_tag_list[k].ty = "Compound" /\ ret.py_tag_list[k].name = ret.key
          /\ Roots = read_result.value

\* several compounds were returned, one of them below a root, while other
\* compounds of the world are not named key
C11_Witness ==
    /\ Searched(FALSE)
    /\ Len(ret.result_list) >= 2
    /\ \E i \in 1..Len(ret.result_list) : Len(ret.result_list[i]) >= 2
    /\ \E p \in PathsIn(Roots, <<>>) : TyAt(p) = "Compound" /\ p \notin Named(ret.key)
====
